---- MODULE Spec2Model ----
(***************************************************************************)
(* emotion_detector (src/emotion_detection.py): one HTTP POST to the       *)
(* Watson NLP emotion endpoint, the navigation of the JSON answer, the     *)
(* choice of the dominant emotion and the translation of every exception   *)
(* into a printed message and a None return value.                         *)
(*                                                                         *)
(* Every invocation p runs the function body step by step (pc[p]); the     *)
(* backend and the network are the environment, which decides what the     *)
(* POST raises or returns.  Scores are integers: only their order matters  *)
(* to max().  A JSON object whose field order matters (the emotion record, *)
(* a Python dict in insertion order) is a sequence of <<key, score>>.      *)
(***************************************************************************)
EXTENDS Integers, Sequences, FiniteSets, TLC

\* ------------------------------------------------------------------ bounds
NumProcs == 2
MaxScore == 5

Procs  == 1..NumProcs
Scores == 0..MaxScore

\* ------------------------------------------------------- values and dicts
None    == [none |-> TRUE]
Unbound == "unbound"

\* The five keys the function copies into its result (lines 82-86).
ReturnedKeys == {"joy", "anger", "disgust", "sadness", "fear"}

\* dict keys, in a set
Keys(d) == {d[i][1] : i \in DOMAIN d}

\* dict.get(k) for a key the dict holds (emotions.get, line 62)
Get(d, k) == d[CHOOSE i \in DOMAIN d : d[i][1] = k][2]

\* max(emotions, key=emotions.get): scan in iteration order and keep the
\* first item whose key value is strictly greater than the best so far.
RECURSIVE MaxFrom(_, _, _)
MaxFrom(d, i, best) ==
    IF i > Len(d) THEN best
    ELSE IF Get(d, d[i][1]) > Get(d, best)
         THEN MaxFrom(d, i + 1, d[i][1])
         ELSE MaxFrom(d, i + 1, best)

\* An outcome of an expression: a value, or an exception raised.
Ok(v)    == [raised |-> "none", value |-> v]
Raise(c) == [raised |-> c, value |-> None]

PyMax(d) == IF Len(d) = 0 THEN Raise("ValueError") ELSE Ok(MaxFrom(d, 2, d[1][1]))

\* obj[key] on a dict
HasKey(obj, k) == k \in DOMAIN obj

\* response_data['document']['emotion']['predictions'][0]['emotion'] (line 53)
Navigate(data) ==
    IF ~HasKey(data, "document") THEN Raise("KeyError")
    ELSE IF ~HasKey(data.document, "emotion") THEN Raise("KeyError")
    ELSE IF ~HasKey(data.document.emotion, "predictions") THEN Raise("KeyError")
    ELSE IF Len(data.document.emotion.predictions) = 0 THEN Raise("IndexError")
    ELSE IF ~HasKey(data.document.emotion.predictions[1], "emotion") THEN Raise("KeyError")
    ELSE Ok(data.document.emotion.predictions[1].emotion)

\* The dict literal of lines 81-88; emotions['k'] raises KeyError when absent.
BuildResult(em, dom) ==
    IF ~(ReturnedKeys \subseteq Keys(em)) THEN Raise("KeyError")
    ELSE Ok([joy     |-> Get(em, "joy"),
             anger   |-> Get(em, "anger"),
             disgust |-> Get(em, "disgust"),
             sadness |-> Get(em, "sadness"),
             fear    |-> Get(em, "fear"),
             dominant_emotion |-> dom])

\* input_json (line 22)
InputJson(t) == [raw_document |-> [text |-> t]]

\* --------------------------------------------------------------- exceptions
\* Direct base classes of the exceptions the function can meet: those of
\* requests.exceptions (import, line 3), json (line 4) and the builtins.
Bases(c) ==
    CASE c = "HTTPError"               -> {"RequestException"}
      [] c = "ConnectionError"         -> {"RequestException"}
      [] c = "Timeout"                 -> {"RequestException"}
      [] c = "ConnectTimeout"          -> {"ConnectionError", "Timeout"}
      [] c = "ReadTimeout"             -> {"Timeout"}
      [] c = "TooManyRedirects"        -> {"RequestException"}
      [] c = "InvalidJSONError"        -> {"RequestException"}
      [] c = "RequestsJSONDecodeError" -> {"InvalidJSONError", "JSONDecodeError"}
      [] c = "JSONDecodeError"         -> {"ValueError"}
      [] c = "SimpleJSONDecodeError"   -> {"ValueError"}
      [] c = "RequestException"        -> {"OSError"}
      [] c = "KeyError"                -> {"LookupError"}
      [] c = "IndexError"              -> {"LookupError"}
      [] c = "LookupError"             -> {"Exception"}
      [] c = "ValueError"              -> {"Exception"}
      [] c = "OSError"                 -> {"Exception"}
      [] OTHER                         -> {}

RECURSIVE IsSubclass(_, _)
IsSubclass(c, d) == c = d \/ \E b \in Bases(c) : IsSubclass(b, d)

\* The except clauses without the closing `except Exception`.
ClausesNoCatchAll ==
    <<"HTTPError", "ConnectionError", "Timeout", "RequestException",
      "JSONDecodeError", "KeyError">>

\* The except clauses of the try statement, in source order (lines 90-109).
ExceptClauses ==
    <<"HTTPError", "ConnectionError", "Timeout", "RequestException",
      "JSONDecodeError", "KeyError", "Exception">>

\* The clause that handles an exception of class c: the first one, in source
\* order, naming c or a base class of c; "unhandled" when there is none.
Handler(c) ==
    LET hits == {i \in DOMAIN ExceptClauses : IsSubclass(c, ExceptClauses[i])}
    IN  IF hits = {} THEN "unhandled"
        ELSE ExceptClauses[CHOOSE i \in hits : \A j \in hits : i <= j]

\* A handler that calls the function again.
RetryAfterTimeout(clause) == IF clause = "Timeout" THEN "post" ELSE "returned"

\* Every handler ends with `return None` (lines 92, 95, 98, 101, 104, 108, 111).
AfterHandler(clause) == "returned"

\* raise_for_status() treating only 5xx as an error.
IsServerError(status) == 500 <= status /\ status < 600

\* response.raise_for_status() (line 26): HTTPError for every 4xx and 5xx.
IsHTTPError(status) == 400 <= status /\ status < 600

\* What response.json() (line 50) raises on a body that is not JSON:
\* requests >= 2.27 raises its own JSONDecodeError, older versions the one of
\* json, or of simplejson when that is installed.
JsonErrors == {"RequestsJSONDecodeError", "JSONDecodeError", "SimpleJSONDecodeError"}

\* response.json() (line 50)
Loads(body, c) == IF body.json THEN Ok(body.data) ELSE Raise(c)

\* ---------------------------------------------------------------- the wire
GarbageBody == [json |-> FALSE, data |-> None]
JsonBody(d) == [json |-> TRUE, data |-> d]

\* Answers whose path document.emotion.predictions[0].emotion is broken
DocNoDocument       == [producerId |-> 1]
DocNoEmotion        == [document |-> [sentiment |-> 1]]
DocNoPredictions    == [document |-> [emotion |-> [targets |-> 1]]]
DocEmptyPredictions == [document |-> [emotion |-> [predictions |-> <<>>]]]
DocNoInnerEmotion   == [document |-> [emotion |-> [predictions |-> <<[target |-> 1]>>]]]
BrokenDocs ==
    {DocNoDocument, DocNoEmotion, DocNoPredictions, DocEmptyPredictions,
     DocNoInnerEmotion}

\* The documented answer (comment of lines 32-48) around an emotion record
Doc(rec) == [document |-> [emotion |-> [predictions |-> <<[emotion |-> rec]>>]]]

\* Field orders of the emotion record the backend may send: the order of the
\* comment of lines 38-42, alphabetical order, a record with a sixth field,
\* a record without fear, and an empty record.
FieldOrders ==
    {<<"anger", "disgust", "sadness", "joy", "fear">>,
     <<"anger", "disgust", "fear", "joy", "sadness">>,
     <<"anger", "disgust", "fear", "joy", "sadness", "confidence">>,
     <<"anger", "disgust", "joy", "sadness">>,
     <<>>}

\* The emotion record with its fields in the given order and scores s
Record(order, s) == [i \in DOMAIN order |-> <<order[i], s[i]>>]

SampleRecords ==
    {<<<<"anger", 0>>, <<"disgust", 0>>, <<"sadness", 1>>, <<"joy", 2>>, <<"fear", 1>>>>,
     <<<<"anger", 1>>, <<"disgust", 0>>, <<"fear", 2>>, <<"joy", 0>>, <<"sadness", 2>>>>}

Answer(status, body) == [status |-> status, body |-> body]

\* Answers of the backend that carry no emotion record, and answers with an
\* error status.
PlainReplies ==
    {Answer(200, b) : b \in {GarbageBody} \cup {JsonBody(d) : d \in BrokenDocs}}
    \cup {Answer(s, b) : s \in {404, 500},
                         b \in {GarbageBody} \cup {JsonBody(Doc(r)) : r \in SampleRecords}}

\* A few answers of each kind
SampleReplies ==
    {Answer(200, GarbageBody), Answer(200, JsonBody(DocNoEmotion)),
     Answer(200, JsonBody(DocEmptyPredictions)), Answer(404, GarbageBody)}
    \cup {Answer(s, JsonBody(Doc(r))) : s \in {200, 500}, r \in SampleRecords}

ConnectErrors == {"ConnectionError", "ConnectTimeout"}
ReadErrors    == {"ConnectionError", "ReadTimeout", "TooManyRedirects"}

Texts == {"", "I love this new technology."}

\* -------------------------------------------------------------------- state
VARIABLES
    pc,               \* position of invocation p in the function body
    arg,              \* the text the caller passed to invocation p
    posts,            \* POSTs invocation p has issued
    sent,             \* the JSON payload the backend received from p
    backend,          \* what the network and the backend answered to p
    text,             \* local text_to_analyze
    response,         \* local response
    response_data,    \* local response_data
    emotions,         \* local emotions
    dominant_emotion, \* local dominant_emotion
    exc,              \* the exception being raised in p's try block
    result,           \* the value invocation p returned to its caller
    log               \* the except clause whose message p printed

vars ==
    <<pc, arg, posts, sent, backend, text, response, response_data, emotions,
      dominant_emotion, exc, result, log>>

\* All invocations using the same module-level variables.
SharedFrame(p) == 1

\* The locals of an invocation live in the frame of that call (line 6: every
\* name the body assigns is local to emotion_detector).
Frame(p) == p

NoReply    == [kind |-> "none"]
NoPayload  == InputJson(Unbound)
NoResponse == [status |-> 0, body |-> GarbageBody]
NoData     == [unbound |-> TRUE]
NoEmotions == <<>>
NoResult   == [pending |-> TRUE]

Init ==
    /\ pc = [p \in Procs |-> "idle"]
    /\ arg = [p \in Procs |-> Unbound]
    /\ posts = [p \in Procs |-> 0]
    /\ sent = [p \in Procs |-> NoPayload]
    /\ backend = [p \in Procs |-> NoReply]
    /\ text = [p \in Procs |-> Unbound]
    /\ response = [p \in Procs |-> NoResponse]
    /\ response_data = [p \in Procs |-> NoData]
    /\ emotions = [p \in Procs |-> NoEmotions]
    /\ dominant_emotion = [p \in Procs |-> Unbound]
    /\ exc = [p \in Procs |-> "none"]
    /\ result = [p \in Procs |-> NoResult]
    /\ log = [p \in Procs |-> "none"]

\* The caller calls emotion_detector(t) (lines 6, 116, 127, 137).
Call(p, t) ==
    /\ pc[p] = "idle"
    /\ pc' = [pc EXCEPT ![p] = "post"]
    /\ arg' = [arg EXCEPT ![p] = t]
    /\ text' = [text EXCEPT ![Frame(p)] = t]
    /\ UNCHANGED <<posts, sent, backend, response, response_data, emotions,
                   dominant_emotion, exc, result, log>>

\* requests.post(url, headers=headers, json=input_json) is issued (lines 22, 25).
\* No timeout argument is passed: the wait that follows ends only when the
\* network or the backend ends it.
Post(p) ==
    /\ pc[p] = "post"
    /\ pc' = [pc EXCEPT ![p] = "connect"]
    /\ posts' = [posts EXCEPT ![p] = @ + 1]
    /\ sent' = [sent EXCEPT ![p] = InputJson(text[Frame(p)])]
    /\ UNCHANGED <<arg, backend, text, response, response_data, emotions,
                   dominant_emotion, exc, result, log>>

\* Environment: the connection fails or the operating system gives up on it;
\* requests.post raises c.
ConnectFails(p, c) ==
    /\ pc[p] = "connect"
    /\ pc' = [pc EXCEPT ![p] = "except"]
    /\ backend' = [backend EXCEPT ![p] = [kind |-> "raise", exc |-> c, during |-> "connect"]]
    /\ exc' = [exc EXCEPT ![p] = c]
    /\ UNCHANGED <<arg, posts, sent, text, response, response_data, emotions,
                   dominant_emotion, result, log>>

\* Environment: the backend accepts the connection.
Accept(p) ==
    /\ pc[p] = "connect"
    /\ pc' = [pc EXCEPT ![p] = "read"]
    /\ UNCHANGED <<arg, posts, sent, backend, text, response, response_data,
                   emotions, dominant_emotion, exc, result, log>>

\* Environment: the read of the answer fails; requests.post raises c.
ReadFails(p, c) ==
    /\ pc[p] = "read"
    /\ pc' = [pc EXCEPT ![p] = "except"]
    /\ backend' = [backend EXCEPT ![p] = [kind |-> "raise", exc |-> c, during |-> "read"]]
    /\ exc' = [exc EXCEPT ![p] = c]
    /\ UNCHANGED <<arg, posts, sent, text, response, response_data, emotions,
                   dominant_emotion, result, log>>

\* Environment: the backend answers r; requests.post returns it (line 25).
Reply(p, r) ==
    /\ pc[p] = "read"
    /\ pc' = [pc EXCEPT ![p] = "raise_for_status"]
    /\ backend' = [backend EXCEPT ![p] = [kind |-> "reply", response |-> r]]
    /\ response' = [response EXCEPT ![Frame(p)] = r]
    /\ UNCHANGED <<arg, posts, sent, text, response_data, emotions,
                   dominant_emotion, exc, result, log>>

\* The backend answers with any emotion record over FieldOrders and Scores,
\* or with an answer that carries none.
ReplyAny(p) ==
    /\ pc[p] = "read"
    /\ \/ \E r \in PlainReplies : Reply(p, r)
       \/ \E o \in FieldOrders : \E s \in [DOMAIN o -> Scores] :
              Reply(p, Answer(200, JsonBody(Doc(Record(o, s)))))

\* The backend answers with one of the sample answers.
ReplySample(p) ==
    /\ pc[p] = "read"
    /\ \E r \in SampleReplies : Reply(p, r)

\* response.raise_for_status() (line 26)
RaiseForStatus(p) ==
    /\ pc[p] = "raise_for_status"
    /\ IF IsHTTPError(response[Frame(p)].status)
       THEN /\ pc' = [pc EXCEPT ![p] = "except"]
            /\ exc' = [exc EXCEPT ![p] = "HTTPError"]
       ELSE /\ pc' = [pc EXCEPT ![p] = "json"]
            /\ UNCHANGED exc
    /\ UNCHANGED <<arg, posts, sent, backend, text, response, response_data,
                   emotions, dominant_emotion, result, log>>

\* response_data = response.json() (line 50); c is the class this build of
\* requests raises on a body that is not JSON.
Json(p, c) ==
    /\ pc[p] = "json"
    /\ LET r == Loads(response[Frame(p)].body, c)
       IN  IF r.raised = "none"
           THEN /\ pc' = [pc EXCEPT ![p] = "extract"]
                /\ response_data' = [response_data EXCEPT ![Frame(p)] = r.value]
                /\ UNCHANGED exc
           ELSE /\ pc' = [pc EXCEPT ![p] = "except"]
                /\ exc' = [exc EXCEPT ![p] = r.raised]
                /\ UNCHANGED response_data
    /\ UNCHANGED <<arg, posts, sent, backend, text, response, emotions,
                   dominant_emotion, result, log>>

\* emotions = response_data['document']['emotion']['predictions'][0]['emotion']
\* (line 53)
Extract(p) ==
    /\ pc[p] = "extract"
    /\ LET r == Navigate(response_data[Frame(p)])
       IN  IF r.raised = "none"
           THEN /\ pc' = [pc EXCEPT ![p] = "compute"]
                /\ emotions' = [emotions EXCEPT ![Frame(p)] = r.value]
                /\ UNCHANGED exc
           ELSE /\ pc' = [pc EXCEPT ![p] = "except"]
                /\ exc' = [exc EXCEPT ![p] = r.raised]
                /\ UNCHANGED emotions
    /\ UNCHANGED <<arg, posts, sent, backend, text, response, response_data,
                   dominant_emotion, result, log>>

\* dominant_emotion = max(emotions, key=emotions.get) (line 62)
Compute(p) ==
    /\ pc[p] = "compute"
    /\ LET r == PyMax(emotions[Frame(p)])
       IN  IF r.raised = "none"
           THEN /\ pc' = [pc EXCEPT ![p] = "return"]
                /\ dominant_emotion' = [dominant_emotion EXCEPT ![Frame(p)] = r.value]
                /\ UNCHANGED exc
           ELSE /\ pc' = [pc EXCEPT ![p] = "except"]
                /\ exc' = [exc EXCEPT ![p] = r.raised]
                /\ UNCHANGED dominant_emotion
    /\ UNCHANGED <<arg, posts, sent, backend, text, response, response_data,
                   emotions, result, log>>

\* return {...} (lines 81-88)
Return(p) ==
    /\ pc[p] = "return"
    /\ LET r == BuildResult(emotions[Frame(p)], dominant_emotion[Frame(p)])
       IN  IF r.raised = "none"
           THEN /\ pc' = [pc EXCEPT ![p] = "returned"]
                /\ result' = [result EXCEPT ![p] = r.value]
                /\ UNCHANGED exc
           ELSE /\ pc' = [pc EXCEPT ![p] = "except"]
                /\ exc' = [exc EXCEPT ![p] = r.raised]
                /\ UNCHANGED result
    /\ UNCHANGED <<arg, posts, sent, backend, text, response, response_data,
                   emotions, dominant_emotion, log>>

\* The except clauses (lines 90-111): the first clause matching the exception
\* prints its message and returns None; an exception no clause matches leaves
\* the function.
Handle(p) ==
    /\ pc[p] = "except"
    /\ LET h == Handler(exc[p])
       IN  IF h = "unhandled"
           THEN /\ pc' = [pc EXCEPT ![p] = "raised"]
                /\ UNCHANGED <<log, result>>
           ELSE /\ pc' = [pc EXCEPT ![p] = AfterHandler(h)]
                /\ log' = [log EXCEPT ![p] = h]
                /\ result' = [result EXCEPT ![p] = None]
    /\ UNCHANGED <<arg, posts, sent, backend, text, response, response_data,
                   emotions, dominant_emotion, exc>>

\* The caller has used the result (lines 118-123); the call's frame and its
\* result are gone.
Consume(p) ==
    /\ pc[p] \in {"returned", "raised"}
    /\ pc' = [pc EXCEPT ![p] = "idle"]
    /\ arg' = [arg EXCEPT ![p] = Unbound]
    /\ posts' = [posts EXCEPT ![p] = 0]
    /\ sent' = [sent EXCEPT ![p] = NoPayload]
    /\ backend' = [backend EXCEPT ![p] = NoReply]
    /\ text' = [text EXCEPT ![Frame(p)] = Unbound]
    /\ response' = [response EXCEPT ![Frame(p)] = NoResponse]
    /\ response_data' = [response_data EXCEPT ![Frame(p)] = NoData]
    /\ emotions' = [emotions EXCEPT ![Frame(p)] = NoEmotions]
    /\ dominant_emotion' = [dominant_emotion EXCEPT ![Frame(p)] = Unbound]
    /\ exc' = [exc EXCEPT ![p] = "none"]
    /\ result' = [result EXCEPT ![p] = NoResult]
    /\ log' = [log EXCEPT ![p] = "none"]

\* A step of the program itself in invocation p, as opposed to a step of the
\* network or the backend.
ProgramStep(p) ==
    \/ Post(p)
    \/ RaiseForStatus(p)
    \/ \E c \in JsonErrors : Json(p, c)
    \/ Extract(p)
    \/ Compute(p)
    \/ Return(p)
    \/ Handle(p)

\* A step of the network in invocation p that is no answer of the backend.
NetworkStep(p) ==
    \/ \E c \in ConnectErrors : ConnectFails(p, c)
    \/ Accept(p)
    \/ \E c \in ReadErrors : ReadFails(p, c)

\* -------------------------------------------------------- specifications
\* A caller that makes one call after the other, as the main block does
\* (lines 114-143); the backend answers with any emotion
\* record.
OthersIdle(p) == \A q \in Procs \ {p} : pc[q] = "idle"

CallInTurn(p) == OthersIdle(p) /\ \E t \in Texts : Call(p, t)

CallAnyTime(p) == \E t \in Texts : Call(p, t)

Next ==
    \E p \in Procs :
        \/ CallInTurn(p)
        \/ ProgramStep(p)
        \/ NetworkStep(p)
        \/ ReplyAny(p)
        \/ Consume(p)

Spec == Init /\ [][Next]_vars

\* Callers that call concurrently; the backend answers with the sample
\* answers.
ConcNext ==
    \E p \in Procs :
        \/ CallAnyTime(p)
        \/ ProgramStep(p)
        \/ NetworkStep(p)
        \/ ReplySample(p)
        \/ Consume(p)

ConcSpec == Init /\ [][ConcNext]_vars

\* Concurrent callers under fair scheduling: every invocation keeps taking
\* the steps of its own code, and the operating system ends a connection
\* attempt by establishing or failing it.  Nothing obliges the backend to
\* answer an established connection, and the POST of line 25 sets no timeout.
FairSpec ==
    /\ Init
    /\ [][ConcNext]_vars
    /\ \A p \in Procs : WF_vars(ProgramStep(p))
    /\ \A p \in Procs : WF_vars(Accept(p) \/ \E c \in ConnectErrors : ConnectFails(p, c))

\* ------------------------------------------------- vocabulary of the claims
\* The fixed enumeration order of the five labels
Labels == <<"anger", "disgust", "fear", "joy", "sadness">>
FiveLabels == {Labels[i] : i \in DOMAIN Labels}

Ended(p)     == pc[p] \in {"returned", "raised"}
Succeeded(p) == pc[p] = "returned" /\ result[p] # None
Answered(p)  == backend[p].kind = "reply"

\* The whole expected path is present in a parsed body
PathComplete(data) ==
    /\ "document" \in DOMAIN data
    /\ "emotion" \in DOMAIN data.document
    /\ "predictions" \in DOMAIN data.document.emotion
    /\ Len(data.document.emotion.predictions) > 0
    /\ "emotion" \in DOMAIN data.document.emotion.predictions[1]
    /\ FiveLabels \subseteq Keys(data.document.emotion.predictions[1].emotion)

\* The emotion record of the backend's answer to p
AnsweredRecord(p) == backend[p].response.body.data.document.emotion.predictions[1].emotion

\* The kind of failure, in the taxonomy of the specification, that the
\* network's or the backend's answer b is; "none" for an answer that is none.
FailureKind(b) ==
    IF b.kind = "raise"
    THEN IF b.exc \in {"ConnectTimeout", "ReadTimeout"} THEN "TimedOut"
         ELSE IF b.exc = "ConnectionError" THEN "ConnectionFailed"
         ELSE "UnknownFailure"
    ELSE IF b.kind = "reply"
    THEN IF b.response.status >= 400 THEN "RequestRejected"
         ELSE IF ~b.response.body.json THEN "MalformedResponse"
         ELSE IF ~PathComplete(b.response.body.data) THEN "UnexpectedSchema"
         ELSE "none"
    ELSE "none"

Failed(p) == Ended(p) /\ FailureKind(backend[p]) # "none"

\* The greatest of the five labels' scores in record rec
GreatestOfFive(rec) ==
    CHOOSE m \in {Get(rec, l) : l \in FiveLabels} : \A l \in FiveLabels : Get(rec, l) <= m

\* -------------------------------------------------------------------- C1
\* C1: a successful call whose answer carries five pairwise distinct scores
\* for the five labels returns as dominant_emotion the label, among the five,
\* whose score is strictly greatest.
C1_DominantIsStrictMaxOfFive ==
    \A p \in Procs :
        (/\ Succeeded(p)
         /\ \A k, l \in FiveLabels :
               k # l => Get(AnsweredRecord(p), k) # Get(AnsweredRecord(p), l))
        => /\ result[p].dominant_emotion \in FiveLabels
           /\ \A l \in FiveLabels \ {result[p].dominant_emotion} :
                 Get(AnsweredRecord(p), l)
                     < Get(AnsweredRecord(p), result[p].dominant_emotion)

\* -------------------------------------------------------------------- C2
\* C2: a successful call in whose answer two or more of the five scores are
\* equal and maximal returns the tied label that comes first in the order
\* anger, disgust, fear, joy, sadness, whatever the order of the fields in
\* the answer.
C2_TieGoesToFirstInEnumerationOrder ==
    \A p \in Procs :
        Succeeded(p) =>
            LET rec  == AnsweredRecord(p)
                tied == {i \in DOMAIN Labels : Get(rec, Labels[i]) = GreatestOfFive(rec)}
            IN  Cardinality(tied) >= 2 =>
                    result[p].dominant_emotion
                        = Labels[CHOOSE i \in tied : \A j \in tied : i <= j]

\* ------------------------------------------------------------------- C10
\* C10: in every result of a successful call dominant_emotion is one of the
\* five labels and a key of the returned score map, also when the emotion
\* record of the answer carries further fields.
C10_DominantIsOneOfTheFive ==
    \A p \in Procs :
        Succeeded(p) =>
            /\ result[p].dominant_emotion \in FiveLabels
            /\ result[p].dominant_emotion \in DOMAIN result[p] \ {"dominant_emotion"}

\* -------------------------------------------------------------------- C6
\* C6: a call answered with a well-formed body from which a part of the
\* expected path is absent (a key at any level, the first prediction, one of
\* the five scores) ends in the handler of the unexpected schema, the
\* `except KeyError` clause, and no exception leaves the call.
C6_AbsentPathEndsInSchemaHandler ==
    \A p \in Procs :
        (Ended(p) /\ FailureKind(backend[p]) = "UnexpectedSchema")
        => (pc[p] = "returned" /\ log[p] = "KeyError")

\* -------------------------------------------------------------------- C7
\* C7: a call whose wait timed out, while connecting or while reading, ends
\* in the handler of the timeout, the `except Timeout` clause, and in no
\* other.
C7_TimeoutEndsInTimeoutHandler ==
    \A p \in Procs :
        (Ended(p) /\ FailureKind(backend[p]) = "TimedOut")
        => (pc[p] = "returned" /\ log[p] = "Timeout")

\* -------------------------------------------------------------------- C4
\* C4: every invocation eventually returns, also when the backend accepts
\* the connection and never answers.
C4_EveryCallReturns ==
    \A p \in Procs : (pc[p] = "post") ~> Ended(p)

\* -------------------------------------------------------------------- C5
\* C5: a call answered with a 4xx or 5xx status ends in the handler of the
\* rejected request, the `except HTTPError` clause, returns the failure value
\* None, and at no point of the call is the body parsed into response_data,
\* an emotion record extracted or a dominant emotion computed.
C5_RejectedStatusIsNeverParsed ==
    \A p \in Procs :
        (Answered(p) /\ backend[p].response.status \in 400..599)
        => /\ response_data[p] = NoData
           /\ emotions[p] = NoEmotions
           /\ dominant_emotion[p] = Unbound
           /\ pc[p] \in {"raise_for_status", "except", "returned"}
           /\ pc[p] = "returned" => (log[p] = "HTTPError" /\ result[p] = None)

\* A call answered 500 with a body that would parse has returned.
C5_Witness ==
    \E p \in Procs :
        /\ pc[p] = "returned"
        /\ Answered(p)
        /\ backend[p].response.status = 500
        /\ backend[p].response.body.json
        /\ log[p] = "HTTPError"

\* -------------------------------------------------------------------- C8
\* C8: an invocation issues exactly one POST, whatever its outcome: never a
\* second one, and one by the time it waits for the network or has ended.
C8_ExactlyOnePost ==
    \A p \in Procs :
        /\ posts[p] <= 1
        /\ pc[p] \notin {"idle", "post"} => posts[p] = 1

\* One call has returned a result and another has returned from a failure.
C8_Witness ==
    \E p, q \in Procs :
        /\ Succeeded(p) /\ posts[p] = 1
        /\ pc[q] = "returned" /\ result[q] = None /\ posts[q] = 1

\* -------------------------------------------------------------------- C9
\* The result the answer b determines: None unless b is an answer with a
\* success status, a body that parses and the whole path present; then the
\* five scores of b's record and the first key of b's record, in the order
\* of its fields, that carries its greatest score.
IsDeterminedBy(res, b) ==
    IF FailureKind(b) # "none" \/ b.kind # "reply"
    THEN res = None
    ELSE LET rec == b.response.body.data.document.emotion.predictions[1].emotion
         IN  /\ res # None
             /\ \A k \in ReturnedKeys : res[k] = Get(rec, k)
             /\ \E i \in DOMAIN rec :
                   /\ res.dominant_emotion = rec[i][1]
                   /\ \A j \in DOMAIN rec : rec[j][2] <= rec[i][2]
                   /\ \A j \in DOMAIN rec : j < i => rec[j][2] < rec[i][2]

\* C9: under any interleaving of concurrent invocations, the payload an
\* invocation sends carries its own input text and the value it returns is
\* the one its own backend answer determines.
C9_ResultIsOwn ==
    \A p \in Procs :
        /\ pc[p] \notin {"idle", "post"} => sent[p] = InputJson(arg[p])
        /\ Ended(p) => (pc[p] = "returned" /\ IsDeterminedBy(result[p], backend[p]))

\* Two invocations with different texts and different answers are past the
\* POST at the same time; one has returned a result while the other is still
\* computing its dominant emotion.
C9_Witness ==
    \E p, q \in Procs :
        /\ Succeeded(p)
        /\ pc[q] = "compute"
        /\ arg[p] # arg[q]
        /\ backend[p] # backend[q]

\* -------------------------------------------------------------------- C3
\* C3 as stated: two calls that fail for different kinds of reason return
\* different values.
C3_FailureKindsDistinguishable ==
    \A p, q \in Procs :
        (Failed(p) /\ Failed(q) /\ FailureKind(backend[p]) # FailureKind(backend[q]))
        => result[p] # result[q]

\* C3 as amended: every failure condition is caught inside the call, which
\* prints the message of an except clause and returns None; the value is the
\* same bare None for every kind of failure.
C3_EveryFailureReturnsNone ==
    \A p \in Procs :
        Failed(p) => (pc[p] = "returned" /\ result[p] = None /\ log[p] # "none")

\* Two calls that failed for different kinds of reason have both returned.
C3_Witness ==
    \E p, q \in Procs :
        /\ Failed(p) /\ Failed(q)
        /\ FailureKind(backend[p]) = "UnexpectedSchema"
        /\ FailureKind(backend[q]) = "TimedOut"
        /\ result[p] = None /\ result[q] = None

====
